---- MODULE Spec2Model ----
(***************************************************************************)
(* Cloud Carbon Emissions Calculator (dash_functions.py, dashboard.py).    *)
(*                                                                         *)
(* The model has two specifications over the same variables:               *)
(*   Spec      one Streamlit session of dashboard.py: a widget event, then *)
(*             the script run it starts, to its end or to the Streamlit    *)
(*             call where the next event stops it.  A click on Calculate   *)
(*             is the run up to line 108 and then the handler of lines     *)
(*             108-152; a click on Reset Calculation is the callback       *)
(*             reset_batches, one step for each assignment of its loop,    *)
(*             and then the script run;                                    *)
(*   UnitSpec  direct calls of calculate() on a populated session state,   *)
(*             with or without the API_KEY credential.                     *)
(*                                                                         *)
(* Python values are tagged: [type, n] with type int / float / bool / str  *)
(* / absent.  Floats are held in tenths (0.5 is n = 5) in request bodies   *)
(* and in whole units in responses.                                        *)
(***************************************************************************)
EXTENDS Integers, Sequences, FiniteSets, TLC

VARIABLES
    api_key,            \* os.environ.get('API_KEY') is set
    file_status,        \* metadata.json: "ok", "not_found" or "invalid_json"
    session_state,      \* st.session_state: key -> list of request bodies
    provider,           \* provider id the run assigned at line 38
    region,             \* value of the "Region" selectbox the run assigned at line 41
    service,            \* value of the "Service" radio the run assigned at line 45
    widgets,            \* the values held for the widgets: selections, button clicked
    page,               \* messages rendered by the current or last script run / call
    sends,              \* send_batch_request calls of that run's calculation
    result_breakdown,   \* result_breakdown of dashboard.py line 115, once assigned
    pc                  \* position of the script thread: [at, i]

vars == <<api_key, file_status, session_state, provider, region, service, widgets,
          page, sends, result_breakdown, pc>>

(***************************************************************************)
(* Bounds of the model.                                                    *)
(***************************************************************************)
\* Session: no more than this many requests are accumulated over all batches.
MaxItems == 2
\* Direct calls: the populated session state holds at most this many requests.
MaxUnitItems == 3
\* Session: a request is answered with one of this many outcomes of requests.post.
MaxSessionOutcomes == 3

(***************************************************************************)
(* Tagged Python / JSON values.                                            *)
(***************************************************************************)
PyInt(n) == [type |-> "int", n |-> n]
PyFloat(n) == [type |-> "float", n |-> n]
PyBool(n) == [type |-> "bool", n |-> n]
PyStr == [type |-> "str", n |-> 0]
Absent == [type |-> "absent", n |-> 0]
\* A selectbox over an empty option list returns None; every other region,
\* instance and storage type of the model is a Python str.
None == "<None>"
isinstance_str(v) == v # None

\* isinstance(v, int): bool is a subclass of int in Python.
isinstance_int(v) == v.type \in {"int", "bool"}
\* isinstance(v, float)
isinstance_float(v) == v.type = "float"

Range(s) == {s[i] : i \in DOMAIN s}

RECURSIVE SumLen(_, _)
SumLen(f, keys) ==
    IF keys = {} THEN 0
    ELSE LET k == CHOOSE x \in keys : TRUE
         IN Len(f[k]) + SumLen(f, keys \ {k})

\* The number of requests held in the store ss.
Held(ss) == SumLen(ss, DOMAIN ss)

(***************************************************************************)
(* dashboard.py: module constants.                                         *)
(***************************************************************************)
TIME_UNITS == <<"h", "ms", "s", "m", "day", "year">>
DATA_UNITS == <<"MB", "GB", "TB">>
ProviderNames == <<"Amazon Web Services", "Microsoft Azure", "Google Cloud Platform">>
ServiceOptions == <<"Virtual Machine", "Storage">>
StorageTypeOptions == <<"Solid-state Drive", "Hard Disk Drive">>
ProviderIds == <<"aws", "azure", "gcp">>
\* The key list of dashboard.py line 28 and reset_batches.
BatchKeyList == <<"aws_vm_batch", "azure_vm_batch", "gcp_vm_batch",
                  "aws_store_batch", "azure_store_batch", "gcp_store_batch">>
BatchKeys == Range(BatchKeyList)
\* f"{provider}_{calculation_type}_batch"
BatchKey(p, calculation_type) == p \o "_" \o calculation_type \o "_batch"
\* f"{provider}_{calculation_type}"
BucketKey(p, calculation_type) == p \o "_" \o calculation_type

(***************************************************************************)
(* dash_functions.py: convert_provider_name.  "ValueError" stands for the  *)
(* raised exception.                                                       *)
(***************************************************************************)
convert_provider_name(name) ==
    CASE name = "Amazon Web Services" -> "aws"
      [] name = "Microsoft Azure" -> "azure"
      [] name = "Google Cloud Platform" -> "gcp"
      [] name = "aws" -> "Amazon Web Services"
      [] name = "azure" -> "Microsoft Azure"
      [] name = "gcp" -> "Google Cloud Platform"
      [] OTHER -> "ValueError"

(***************************************************************************)
(* dash_functions.py: request body builders.  A result is                  *)
(* [raised |-> exception or "", body |-> the dict].                        *)
(***************************************************************************)
NoVmBody ==
    [region |-> "", instance |-> "", duration |-> PyInt(0),
     duration_unit |-> "", average_vcpu_utilization |-> PyFloat(0)]

generate_vm_request_body(rgn, instance, duration, duration_unit, vcpu_utilization) ==
    IF ~isinstance_int(duration)
    THEN [raised |-> "ValueError", body |-> NoVmBody]
    ELSE IF ~isinstance_str(rgn) \/ ~isinstance_str(instance)
    THEN [raised |-> "ValueError", body |-> NoVmBody]
    ELSE IF duration_unit \notin {"ms", "s", "m", "h", "day", "year"}
    THEN [raised |-> "ValueError", body |-> NoVmBody]
    ELSE IF ~isinstance_float(vcpu_utilization)
    THEN [raised |-> "ValueError", body |-> NoVmBody]
    ELSE IF ~(0 <= vcpu_utilization.n /\ vcpu_utilization.n <= 10)
    THEN [raised |-> "ValueError", body |-> NoVmBody]
    ELSE [raised |-> "",
          body |-> [region |-> rgn,
                    instance |-> instance,
                    duration |-> duration,
                    duration_unit |-> duration_unit,
                    average_vcpu_utilization |-> vcpu_utilization]]

NoStorageBody ==
    [region |-> "", storage_type |-> "", data |-> PyFloat(0), data_unit |-> "",
     duration |-> PyInt(0), duration_unit |-> ""]

generate_storage_request_body(rgn, storage_type, duration, data_stored, data_unit, duration_unit) ==
    IF ~isinstance_int(duration)
    THEN [raised |-> "ValueError", body |-> NoStorageBody]
    ELSE IF ~isinstance_str(rgn) \/ ~isinstance_str(storage_type)
    THEN [raised |-> "ValueError", body |-> NoStorageBody]
    ELSE IF duration_unit \notin {"ms", "s", "m", "h", "day", "year"}
    THEN [raised |-> "ValueError", body |-> NoStorageBody]
    ELSE IF ~isinstance_float(data_stored)
    THEN [raised |-> "ValueError", body |-> NoStorageBody]
    ELSE IF data_unit \notin {"MB", "GB", "TB"}
    THEN [raised |-> "ValueError", body |-> NoStorageBody]
    ELSE [raised |-> "",
          body |-> [region |-> rgn,
                    storage_type |-> CASE storage_type = "Solid-state Drive" -> "ssd"
                                       [] storage_type = "Hard Disk Drive" -> "hdd"
                                       [] OTHER -> storage_type,
                    data |-> data_stored,
                    data_unit |-> data_unit,
                    duration |-> duration,
                    duration_unit |-> duration_unit]]

(***************************************************************************)
(* dash_functions.py: read_metadata.  FileCatalog is the content of a      *)
(* readable metadata.json; the fallback is the catalog built in the code.  *)
(***************************************************************************)
FileCatalog ==
    [aws |-> [regions |-> <<"us-east-1", "eu-west-1">>,
              virtual_machine_instances |-> <<"t2.micro">>],
     azure |-> [regions |-> <<"eastus">>,
                virtual_machine_instances |-> <<"Standard_B1s">>],
     gcp |-> [regions |-> <<"us-central1">>,
              virtual_machine_instances |-> <<"e2-micro">>]]

FallbackCatalog ==
    [aws |-> [regions |-> <<"us-east-1">>, virtual_machine_instances |-> <<"t2.micro">>],
     azure |-> [regions |-> <<"eastus">>, virtual_machine_instances |-> <<"Standard_B1s">>],
     gcp |-> [regions |-> <<"us-central1">>, virtual_machine_instances |-> <<"e2-micro">>]]

\* [metadata, errors]: the catalog and the st.error messages.
read_metadata(status) ==
    CASE status = "ok" -> [metadata |-> FileCatalog, errors |-> <<>>]
      [] status = "not_found" ->
            [metadata |-> FallbackCatalog, errors |-> <<"error: Metadata file not found">>]
      [] OTHER ->
            [metadata |-> FallbackCatalog, errors |-> <<"error: Invalid JSON in metadata file">>]

\* metadata["cloud_providers"][provider]["regions"], dashboard.py line 40
valid_regions(status, p) == read_metadata(status).metadata[p].regions
\* metadata["cloud_providers"][provider]["virtual_machine_instances"], line 44
valid_instances(status, p) == read_metadata(status).metadata[p].virtual_machine_instances

(***************************************************************************)
(* The network: what requests.post would do for one request.               *)
(*   exc       exception raised by requests.post ("" when it returns)      *)
(*   status    response.status_code                                        *)
(*   json_ok   response.json() parses                                      *)
(*   json      the value response.json() returns: a JSON object with its   *)
(*             two CO2e fields, or a JSON value that is not an object      *)
(***************************************************************************)
Co2eBody(total_co2e, co2e) ==
    [type |-> "object", total_co2e |-> total_co2e, co2e |-> co2e]
EmptyBody == Co2eBody(Absent, Absent)
\* A JSON array or null: response.json() returns a list or None.
NonObjectBody == [type |-> "array", total_co2e |-> Absent, co2e |-> Absent]

Response(status, json_ok, json) ==
    [exc |-> "", status |-> status, json_ok |-> json_ok, json |-> json]
PostRaises(exc) == [exc |-> exc, status |-> 0, json_ok |-> FALSE, json |-> EmptyBody]

\* Response objects of the estimation API and of a misbehaving server.
ResponseBodies ==
    { Co2eBody(PyFloat(2), PyFloat(3)),        \* both fields numeric
      Co2eBody(PyStr, Absent),                 \* a string / a missing field
      Co2eBody(Absent, PyBool(1)),             \* a missing field / JSON true
      NonObjectBody }                          \* [] or null

Outcomes ==
    { Response(200, TRUE, b) : b \in ResponseBodies }
      \cup { Response(403, TRUE, EmptyBody),   \* forbidden
             Response(500, TRUE, EmptyBody),   \* any other 4xx / 5xx
             Response(200, FALSE, EmptyBody),  \* body is not JSON
             PostRaises("ConnectionError"),    \* host unreachable, ConnectTimeout
             PostRaises("ReadTimeout") }       \* timeout=15 elapsed while reading

\* The outcomes of requests.post, the plain success first.
OutcomeList ==
    << Response(200, TRUE, Co2eBody(PyFloat(2), PyFloat(3))),
       PostRaises("ConnectionError"),
       Response(200, TRUE, NonObjectBody),
       Response(403, TRUE, EmptyBody),
       PostRaises("ReadTimeout"),
       Response(200, FALSE, EmptyBody),
       Response(500, TRUE, EmptyBody),
       Response(200, TRUE, Co2eBody(PyStr, Absent)),
       Response(200, TRUE, Co2eBody(Absent, PyBool(1))) >>

\* The outcomes drawn in a session (Spec) and for the merged calculation of
\* both kinds (UnitSpec): the first MaxSessionOutcomes of the list, which are
\* a success, a connection failure, which is reported and empties the batch's
\* results, and a 200 response whose body is not an object, which makes
\* format_batch_response raise.
SessionOutcomes ==
    {OutcomeList[i] : i \in {i \in DOMAIN OutcomeList : i <= MaxSessionOutcomes}}

\* raise_for_status that lets client errors (4xx) through.
raise_for_status_5xx(response) == 500 <= response.status /\ response.status < 600

\* response.raise_for_status(): HTTPError for 4xx and 5xx.
raise_for_status(response) == 400 <= response.status /\ response.status < 600

\* The exception one pass of the try block (lines 114-116) ends with, "" if none.
TryBlock(outcome) ==
    IF outcome.exc # "" THEN outcome.exc
    ELSE IF raise_for_status(outcome) THEN "HTTPError"
    ELSE IF ~outcome.json_ok THEN "JSONDecodeError"
    ELSE ""

(***************************************************************************)
(* dash_functions.py: send_batch_request.                                  *)
(* env[i] is the network's outcome for body_array[i], should it be posted. *)
(* Result: [results, posts, errors, raised]; posts are the requests.post   *)
(* calls made, in order, each with the outcome it met.                     *)
(***************************************************************************)
Post(p, endpoint, body, outcome) ==
    [provider |-> p, endpoint |-> endpoint, body |-> body, outcome |-> outcome]

\* lines 123-126: except requests.exceptions.ConnectionError
except_ConnectionError_partial(results, posts, errors) ==
    [results |-> results, posts |-> posts, raised |-> "",
     errors |-> errors \o <<"error: Network failure",
                            "error: Verify your internet connection">>]

except_ConnectionError(results, posts, errors) ==
    [results |-> <<>>, posts |-> posts, raised |-> "",
     errors |-> errors \o <<"error: Network failure",
                            "error: Verify your internet connection">>]

\* lines 127-129: except Exception
except_Exception(results, posts, errors) ==
    [results |-> <<>>, posts |-> posts, raised |-> "",
     errors |-> Append(errors, "error: Unexpected error")]

\* lines 118-121: the message of except requests.HTTPError
http_error_message(response) ==
    IF response.status = 403 THEN "error: Forbidden" ELSE "error: HTTP error"

RECURSIVE send_loop(_, _, _, _, _, _, _, _)
send_loop(p, endpoint, body_array, env, i, results, posts, errors) ==
    IF i > Len(body_array)
    THEN [results |-> results, posts |-> posts, errors |-> errors, raised |-> ""]
    ELSE LET outcome == env[i]
             exc == TryBlock(outcome)
             posted == Append(posts, Post(p, endpoint, body_array[i], outcome))
         IN CASE exc = "" ->
                   send_loop(p, endpoint, body_array, env, i + 1,
                             Append(results, outcome.json), posted, errors)
              [] exc = "HTTPError" ->
                   send_loop(p, endpoint, body_array, env, i + 1, results, posted,
                             Append(errors, http_error_message(outcome)))
              [] exc = "ConnectionError" ->
                   except_ConnectionError(results, posted, errors)
              [] OTHER ->
                   except_Exception(results, posted, errors)

\* send_batch_request without the check of lines 106-108.
send_batch_request_unchecked(p, body_array, endpoint, key_set, env) ==
    IF p \notin {"aws", "azure", "gcp"}
    THEN [results |-> <<>>, posts |-> <<>>, errors |-> <<>>, raised |-> "ValueError"]
    ELSE send_loop(p, endpoint, body_array, env, 1, <<>>, <<>>, <<>>)

send_batch_request(p, body_array, endpoint, key_set, env) ==
    IF p \notin {"aws", "azure", "gcp"}
    THEN [results |-> <<>>, posts |-> <<>>, errors |-> <<>>, raised |-> "ValueError"]
    ELSE IF ~key_set
    THEN [results |-> <<>>, posts |-> <<>>, raised |-> "",
          errors |-> <<"error: API_KEY environment variable not set">>]
    ELSE send_loop(p, endpoint, body_array, env, 1, <<>>, <<>>, <<>>)

(***************************************************************************)
(* dash_functions.py: format_batch_response.                               *)
(* Result: [raised, value]; item.get on a list or None is an               *)
(* AttributeError, which ends the loop.                                    *)
(***************************************************************************)
\* item.get exists: the item is a dict.
has_get(item) == item.type = "object"

\* item.get(co2_key, 0)
item_get(item, co2_key) ==
    IF item[co2_key].type = "absent" THEN PyInt(0) ELSE item[co2_key]

RECURSIVE format_loop(_, _, _, _)
format_loop(result_set, co2_key, i, overall_co2e) ==
    IF i > Len(result_set) THEN [raised |-> "", value |-> overall_co2e]
    ELSE IF ~has_get(result_set[i]) THEN [raised |-> "AttributeError", value |-> 0]
    ELSE LET co2e_value == item_get(result_set[i], co2_key)
         IN format_loop(result_set, co2_key, i + 1,
                        IF isinstance_int(co2e_value) \/ isinstance_float(co2e_value)
                        THEN overall_co2e + co2e_value.n
                        ELSE overall_co2e)

format_batch_response(response, calculation_type) ==
    LET co2_key == IF calculation_type = "vm" THEN "total_co2e" ELSE "co2e"
    IN format_loop(response.results, co2_key, 1, 0)

\* d[key] = value on a Python dict: the key is created when absent.
setitem(ss, key, value) ==
    [k \in DOMAIN ss \cup {key} |-> IF k = key THEN value ELSE ss[k]]

(***************************************************************************)
(* dash_functions.py: calculate.  env[p] holds the network's outcomes for  *)
(* the requests of provider p's batch.  The three "if <p>_batch:" blocks   *)
(* are one pass each of calc_loop over aws, azure, gcp.                    *)
(* Result: [result_breakdown, sends, errors, raised]; sends are the        *)
(* send_batch_request calls made, in order.  An exception of               *)
(* send_batch_request or format_batch_response leaves calculate at once:   *)
(* nothing is returned and the providers after it are not sent.            *)
(***************************************************************************)
\* st.session_state.get(key, [])
session_get(ss, key) == IF key \in DOMAIN ss THEN ss[key] ELSE <<>>

SendRecord(p, endpoint, body_array, response) ==
    [provider |-> p, endpoint |-> endpoint, body_array |-> body_array,
     posts |-> response.posts, results |-> response.results,
     errors |-> response.errors, raised |-> response.raised]

RECURSIVE calc_loop(_, _, _, _, _, _, _, _)
calc_loop(calculation_type, ss, key_set, env, j, breakdown, sent, errors) ==
    IF j > Len(ProviderIds)
    THEN [result_breakdown |-> breakdown, sends |-> sent, errors |-> errors,
          raised |-> ""]
    ELSE LET p == ProviderIds[j]
             endpoint == IF calculation_type = "vm" THEN "instance" ELSE "storage"
             batch == session_get(ss, BatchKey(p, calculation_type))
             response == send_batch_request(p, batch, endpoint, key_set, env[p])
             total == format_batch_response(response, calculation_type)
         IN IF batch = <<>>
            THEN calc_loop(calculation_type, ss, key_set, env, j + 1,
                           breakdown, sent, errors)
            ELSE IF response.raised # "" \/ total.raised # ""
            THEN [result_breakdown |-> <<>>,
                  sends |-> Append(sent, SendRecord(p, endpoint, batch, response)),
                  errors |-> errors \o response.errors,
                  raised |-> IF response.raised # "" THEN response.raised
                             ELSE total.raised]
            ELSE calc_loop(calculation_type, ss, key_set, env, j + 1,
                           setitem(breakdown, BucketKey(p, calculation_type), total.value),
                           Append(sent, SendRecord(p, endpoint, batch, response)),
                           errors \o response.errors)

calculate(calculation_type, ss, key_set, env) ==
    calc_loop(calculation_type, ss, key_set, env, 1,
              [k \in {BucketKey(ProviderIds[j], calculation_type) : j \in 1..3} |-> 0],
              <<>>, <<>>)

(***************************************************************************)
(* dash_functions.py: reset_batches, the i-th pass of its loop over the    *)
(* six keys (lines 94-96).  st.session_state[key] = [] creates the key     *)
(* when it is absent.                                                      *)
(***************************************************************************)
\* A loop whose key list misses the storage batches.
reset_batches_vm_only(ss, i) == IF i <= 3 THEN setitem(ss, BatchKeyList[i], <<>>) ELSE ss

\* A loop whose key list has a misspelt key.
reset_batches_misspelt(ss, i) ==
    setitem(ss, (SubSeq(BatchKeyList, 1, 5) \o <<"gcp_storage_batch">>)[i], <<>>)

reset_batches(ss, i) == setitem(ss, BatchKeyList[i], <<>>)

(***************************************************************************)
(* dashboard.py: the parts of one script run.                              *)
(***************************************************************************)
\* lines 28-31: a key not in st.session_state is created empty.
RECURSIVE init_loop(_, _, _)
init_loop(ss, keys, i) ==
    IF i > Len(keys) THEN ss
    ELSE init_loop(IF keys[i] \in DOMAIN ss THEN ss ELSE setitem(ss, keys[i], <<>>),
                   keys, i + 1)

InitSessionState(ss) == init_loop(ss, BatchKeyList, 1)

\* key.endswith(suffix)
endswith(key, suffix) ==
    /\ Len(key) >= Len(suffix)
    /\ SubSeq(key, Len(key) - Len(suffix) + 1, Len(key)) = suffix

\* key.split("_")[0]: the part of the key before its first "_".
RECURSIVE find_sep(_, _)
find_sep(key, i) ==
    IF i > Len(key) THEN i
    ELSE IF SubSeq(key, i, i) = "_" THEN i
    ELSE find_sep(key, i + 1)
split_first(key) == SubSeq(key, 1, find_sep(key, 1) - 1)

\* lines 97-103: total_items over the non-empty batches of st.session_state
\* whose key ends in "_vm_batch" or "_store_batch".  Each of them is written
\* with convert_provider_name(key.split("_")[0]), a ValueError for a key of
\* no provider, which ends the run.  Result: [raised, value].
total_items(ss) ==
    LET shown == {key \in DOMAIN ss :
                     /\ endswith(key, "_vm_batch") \/ endswith(key, "_store_batch")
                     /\ ss[key] # <<>>}
    IN IF \E key \in shown : convert_provider_name(split_first(key)) = "ValueError"
       THEN [raised |-> "ValueError", value |-> 0]
       ELSE [raised |-> "", value |-> SumLen(ss, shown)]

\* lines 97-105: what the section of the current items renders.
ItemsInfo(ss) ==
    IF total_items(ss).raised # "" THEN <<"exception: " \o total_items(ss).raised>>
    ELSE IF total_items(ss).value = 0 THEN <<"info: No items added">>
    ELSE <<>>

\* st.selectbox(..., options=...) on a rerun with new options: the first one.
first_option(options) == IF options = <<>> THEN None ELSE options[1]

\* The request inserted at the head of the batch.
batch_insert_first(ss, key, body) ==
    IF key \in DOMAIN ss THEN [ss EXCEPT ![key] = <<body>> \o @] ELSE ss

\* st.session_state[f"{provider}_vm_batch"].append(body); an absent key is a
\* KeyError and nothing is stored.
batch_append(ss, key, body) ==
    IF key \in DOMAIN ss THEN [ss EXCEPT ![key] = Append(@, body)] ELSE ss

\* The network outcomes of a calculation: oc[n] is the outcome of the n-th
\* request in the order vm: aws, azure, gcp; store: aws, azure, gcp, counted
\* from the first request of batch key number "first".
Offset(ss, k) ==
    SumLen(ss, {BatchKeyList[i] : i \in {i \in 1..6 : i < k /\ BatchKeyList[i] \in DOMAIN ss}})
KeyIndex(p, calculation_type) ==
    CHOOSE i \in 1..6 : BatchKeyList[i] = BatchKey(p, calculation_type)
Env(ss, oc, calculation_type, first) ==
    [p \in Range(ProviderIds) |->
        LET batch == session_get(ss, BatchKey(p, calculation_type))
            off == Offset(ss, KeyIndex(p, calculation_type)) - Offset(ss, first)
        IN [i \in 1..Len(batch) |-> oc[off + i]]]

\* lines 113-115: both calculations and the merged breakdown; an exception
\* of calculate("vm") leaves before calculate("store") is called.
calculate_all(ss, key_set, oc) ==
    LET vm_result == calculate("vm", ss, key_set, Env(ss, oc, "vm", 1))
        store_result == calculate("store", ss, key_set, Env(ss, oc, "store", 1))
    IN IF vm_result.raised # "" THEN vm_result
       ELSE [result_breakdown |-> IF store_result.raised # "" THEN <<>>
                                  ELSE vm_result.result_breakdown
                                          @@ store_result.result_breakdown,
             sends |-> vm_result.sends \o store_result.sends,
             errors |-> vm_result.errors \o store_result.errors,
             raised |-> store_result.raised]

\* line 116: sum(result_breakdown.values())
RECURSIVE sum_values(_, _)
sum_values(d, keys) ==
    IF keys = {} THEN 0
    ELSE LET k == CHOOSE x \in keys : TRUE
         IN d[k] + sum_values(d, keys \ {k})

\* lines 119-138: what the result section renders.
ResultMessages(breakdown) ==
    <<"Calculation Results">>
       \o (IF sum_values(breakdown, DOMAIN breakdown) > 0 THEN <<>>
           ELSE <<"info: No emissions to display in chart">>)

\* lines 117-129: the st.error calls made for one request, by its outcome.
post_errors(outcome) ==
    LET exc == TryBlock(outcome)
    IN CASE exc = "" -> <<>>
         [] exc = "HTTPError" -> <<http_error_message(outcome)>>
         [] exc = "ConnectionError" -> except_ConnectionError(<<>>, <<>>, <<>>).errors
         [] OTHER -> except_Exception(<<>>, <<>>, <<>>).errors

\* The messages rendered for the first k requests posted.
RECURSIVE PostedErrors(_, _)
PostedErrors(posts, k) ==
    IF k = 0 THEN <<>> ELSE PostedErrors(posts, k - 1) \o post_errors(posts[k].outcome)

\* A call of send_batch_request that a stop ends at one of its st.error
\* calls: the j-th call made for the k-th request posted.  The requests up to
\* the k-th are posted, the messages before that call are rendered, and the
\* call does not return.
StoppedSends(send) ==
    { [send EXCEPT !.posts = SubSeq(send.posts, 1, k),
                   !.results = <<>>,
                   !.errors = PostedErrors(send.posts, k - 1)
                                 \o SubSeq(post_errors(send.posts[k].outcome), 1, j - 1),
                   !.raised = "RerunException"] :
        <<k, j>> \in { kj \in (DOMAIN send.posts) \X (1..2) :
                          kj[2] <= Len(post_errors(send.posts[kj[1]].outcome)) } }

\* The messages of the first n send_batch_request calls.
RECURSIVE SentErrors(_, _)
SentErrors(sent, n) ==
    IF n = 0 THEN <<>> ELSE SentErrors(sent, n - 1) \o sent[n].errors

(***************************************************************************)
(* Values entered in the forms.                                            *)
(***************************************************************************)
DurationInputs == {PyInt(1)}          \* st.number_input(min_value=1, step=1)
UnitInputs == {"h"}                   \* options=TIME_UNITS
VcpuInputs == {PyFloat(5)}            \* st.slider(0.1 .. 1.0)
DataInputs == {PyFloat(1)}            \* st.number_input(min_value=0.1, step=0.1)
DataUnitInputs == {"GB"}              \* options=DATA_UNITS
StorageTypeInputs == {"Hard Disk Drive"}    \* options=["Solid-state Drive", ...]

(***************************************************************************)
(* Spec: a session of dashboard.py.  With no API_KEY the script stops at   *)
(* line 24: nothing is initialised and no widget is rendered.              *)
(*                                                                         *)
(* A session has one script thread.  A widget event updates the values     *)
(* held for the widgets and starts a run: the on_click callback of the     *)
(* button, if it has one, and then the script from line 1.  pc is the      *)
(* position of the thread:                                                 *)
(*   Idle                  the last run has ended; the next widget event   *)
(*                         starts a run;                                   *)
(*   At("reset_batches", i)  the on_click callback is before the i-th      *)
(*                         pass of its loop, or before line 97 when i = 7; *)
(*   At("line 16", 0)      the script is about to run;                     *)
(*   At("line 108", 0)     a run with calculate_bool = True has rendered   *)
(*                         the page down to the current items.             *)
(* A widget event that arrives during a run is held as a rerun request,    *)
(* which ends the run at the thread's next Streamlit call: that call       *)
(* renders nothing and does not return, and what the run has assigned      *)
(* stays.  The run of the held event then starts from Idle.  The           *)
(* assignments of reset_batches make no Streamlit call, so the callback is *)
(* never ended inside its loop.                                            *)
(*                                                                         *)
(* widgets holds the value of each selection widget and the button clicked *)
(* for the run, with the values entered in its form.  provider, region and *)
(* service are the names the script assigns at lines 38, 41 and 45: each   *)
(* run starts with them Unbound.                                           *)
(***************************************************************************)
Idle == [at |-> "idle", i |-> 0]
At(position, i) == [at |-> position, i |-> i]

\* No form was submitted and no button clicked for the run.
NoButton == [button |-> ""]
\* A name of the script that the run has not assigned.
Unbound == "<unbound>"

Init ==
    /\ api_key \in BOOLEAN
    /\ file_status \in {"ok", "not_found", "invalid_json"}
    /\ session_state = IF api_key THEN InitSessionState(<<>>) ELSE <<>>
    /\ provider = IF api_key THEN convert_provider_name(ProviderNames[1]) ELSE Unbound
    /\ region = IF api_key THEN first_option(valid_regions(file_status, provider))
                ELSE Unbound
    /\ service = IF api_key THEN ServiceOptions[1] ELSE Unbound
    /\ widgets = [Provider |-> ProviderNames[1],
                  Region |-> first_option(valid_regions(file_status, "aws")),
                  Service |-> ServiceOptions[1], clicked |-> NoButton]
    /\ page = IF api_key
              THEN read_metadata(file_status).errors \o <<"info: No items added">>
              ELSE <<"error: API_KEY not found">>
    /\ sends = <<>>
    /\ result_breakdown = <<>>
    /\ pc = Idle

NoCalculation == sends' = <<>> /\ result_breakdown' = <<>>

\* A widget event reaches the session: the values of the widgets become w and
\* a run starts, which has rendered nothing and assigned none of its names.
StartRun(w, position) ==
    /\ api_key /\ pc = Idle
    /\ widgets' = w
    /\ pc' = position
    /\ page' = <<>>
    /\ provider' = Unbound /\ region' = Unbound /\ service' = Unbound
    /\ NoCalculation
    /\ UNCHANGED <<api_key, file_status, session_state>>

\* "Provider" (line 36): another provider is selected.
SelectProvider(name) ==
    /\ name # widgets.Provider
    /\ StartRun([widgets EXCEPT !.Provider = name, !.clicked = NoButton], At("line 16", 0))

\* "Region" (line 41): another region of the selected provider.
SelectRegion(r) ==
    /\ r \in Range(valid_regions(file_status, convert_provider_name(widgets.Provider)))
    /\ r # widgets.Region
    /\ StartRun([widgets EXCEPT !.Region = r, !.clicked = NoButton], At("line 16", 0))

\* "Service" (line 45): the other service.
SelectService(s) ==
    /\ s # widgets.Service
    /\ StartRun([widgets EXCEPT !.Service = s, !.clicked = NoButton], At("line 16", 0))

\* "Add to Calculation" of vm_form (line 62) with the values entered.
vm_submitted(instance_type, duration, unit, vcpu_utilization) ==
    /\ widgets.Service = "Virtual Machine"
    /\ Held(session_state) < MaxItems
    /\ StartRun([widgets EXCEPT !.clicked =
                    [button |-> "vm_form", instance_type |-> instance_type,
                     duration |-> duration, unit |-> unit,
                     vcpu_utilization |-> vcpu_utilization]], At("line 16", 0))

\* "Add to Calculation" of storage_form (line 82) with the values entered.
storage_submitted(storage_type, duration, data_stored, data_unit, unit) ==
    /\ widgets.Service = "Storage"
    /\ Held(session_state) < MaxItems
    /\ StartRun([widgets EXCEPT !.clicked =
                    [button |-> "storage_form", storage_type |-> storage_type,
                     duration |-> duration, data_stored |-> data_stored,
                     data_unit |-> data_unit, unit |-> unit]], At("line 16", 0))

\* "Calculate" (line 91).
calculate_clicked ==
    StartRun([widgets EXCEPT !.clicked = [button |-> "Calculate"]], At("line 16", 0))

\* "Reset Calculation" (line 93): the run starts with the on_click callback
\* reset_batches.
reset_button ==
    StartRun([widgets EXCEPT !.clicked = [button |-> "Reset Calculation"]],
             At("reset_batches", 1))

\* dash_functions.py lines 94-96: one pass of the loop of reset_batches.
reset_batches_pass ==
    /\ pc.at = "reset_batches" /\ pc.i <= Len(BatchKeyList)
    /\ session_state' = reset_batches(session_state, pc.i)
    /\ pc' = At("reset_batches", pc.i + 1)
    /\ UNCHANGED <<api_key, file_status, provider, region, service, widgets, page,
                   sends, result_breakdown>>

\* dash_functions.py line 97: the callback's st.success, where a stop ends
\* the run with nothing rendered; the script follows.
reset_batches_return ==
    /\ pc.at = "reset_batches" /\ pc.i > Len(BatchKeyList)
    /\ \/ /\ page' = <<>>
          /\ pc' = Idle
          /\ widgets' = [widgets EXCEPT !.clicked = NoButton]
       \/ /\ page' = <<"success: All calculation entries have been reset">>
          /\ pc' = At("line 16", 0)
          /\ widgets' = widgets
    /\ UNCHANGED <<api_key, file_status, session_state, provider, region, service,
                   sends, result_breakdown>>

\* A selectbox that returns the value held for it, in the options or not.
selectbox_stale(value, options) == value

\* st.selectbox(label, options=options): the value held for the widget, or
\* the first option when that value is not among the options.
selectbox(value, options) ==
    IF value \in Range(options) THEN value ELSE first_option(options)

\* One script run of lines 16-105 with the widget values w on the store ss0,
\* after a callback that rendered the messages "callback".  The result is
\* the set of the states the run can end in: where it ended ("stopped" at a
\* Streamlit call, "raised" an exception, or "line 105" with the page
\* rendered down to the current items), what it assigned and what it
\* rendered.
ScriptRun(w, ss0, callback) ==
    LET errors == read_metadata(file_status).errors
        ss == InitSessionState(ss0)
        p == convert_provider_name(w.Provider)
        r == selectbox(w.Region, valid_regions(file_status, p))
        s == w.Service
        submitted == w.clicked
        vm_submitted_ == submitted.button = "vm_form" /\ s = "Virtual Machine"
        storage_submitted_ == submitted.button = "storage_form" /\ s = "Storage"
        made == IF vm_submitted_
                THEN generate_vm_request_body(r,
                                              selectbox(submitted.instance_type,
                                                        valid_instances(file_status, p)),
                                              submitted.duration, submitted.unit,
                                              submitted.vcpu_utilization)
                ELSE generate_storage_request_body(r, submitted.storage_type,
                                                   submitted.duration,
                                                   submitted.data_stored,
                                                   submitted.data_unit, submitted.unit)
        key == BatchKey(p, IF vm_submitted_ THEN "vm" ELSE "store")
        added == <<IF vm_submitted_ THEN "success: Added VM instance"
                   ELSE "success: Added storage">>
        appended == batch_append(ss, key, made.body)
        \* lines 16-19, or the st.error of read_metadata
        line16 == [ended |-> "stopped", provider |-> provider, region |-> region,
                   service |-> service, widgets |-> w, session_state |-> ss0,
                   page |-> callback]
        \* line 34 or 36: the session state is initialised
        line36 == [line16 EXCEPT !.session_state = ss, !.page = callback \o errors]
        \* line 41: the provider is assigned
        line41 == [line36 EXCEPT !.provider = p]
        \* line 45: the region is assigned
        line45 == [line41 EXCEPT !.region = r, !.widgets = [w EXCEPT !.Region = r]]
        \* a call of lines 49-62 or 70-82, or of lines 89-105 with nothing added
        line49 == [line45 EXCEPT !.service = s]
        \* line 66 or 86: the request is appended
        line66 == [line49 EXCEPT !.session_state = appended]
        \* lines 89-105 after an append
        line89 == [line66 EXCEPT !.page = @ \o added]
    IN {line16, line36, line41, line45, line49}
          \cup (IF ~(vm_submitted_ \/ storage_submitted_)
                THEN {[line49 EXCEPT !.page = @ \o ItemsInfo(ss),
                                     !.ended = IF total_items(ss).raised # ""
                                               THEN "raised" ELSE "line 105"]}
                ELSE IF made.raised # ""
                THEN {[line49 EXCEPT !.page = @ \o <<"exception: ValueError">>,
                                     !.ended = "raised"]}
                ELSE IF key \notin DOMAIN ss
                THEN {[line49 EXCEPT !.page = @ \o <<"exception: KeyError">>,
                                     !.ended = "raised"]}
                ELSE {line66, line89,
                      [line89 EXCEPT !.page = @ \o ItemsInfo(appended),
                                     !.ended = IF total_items(appended).raised # ""
                                               THEN "raised" ELSE "line 105"]})

\* lines 16-107: the script run of the event held in widgets, to its end or
\* to the Streamlit call where the next event stops it.  A run of a click on
\* Calculate (line 91 returns True) that has rendered the current items goes
\* on to line 108.
script_run ==
    /\ pc = At("line 16", 0)
    /\ \E run \in ScriptRun(widgets, session_state, page) :
          /\ provider' = run.provider
          /\ region' = run.region
          /\ service' = run.service
          /\ widgets' = [run.widgets EXCEPT !.clicked = NoButton]
          /\ session_state' = run.session_state
          /\ page' = run.page
          /\ pc' = IF widgets.clicked.button = "Calculate" /\ run.ended = "line 105"
                   THEN At("line 108", 0) ELSE Idle
    /\ UNCHANGED <<api_key, file_status, sends, result_breakdown>>

\* lines 108-152: the handler of the Calculate button.  An exception of
\* calculate ends the run before any result is rendered.  A stop ends it at
\*   the st.warning of line 110;
\*   the entry or the exit of an st.spinner block, when n calls of
\*     send_batch_request have returned (n = 0: the st.spinner of line 112):
\*     at the exit of the block of the last call its results are returned,
\*     result_breakdown is not assigned and an exception raised in the block
\*     is replaced by the stop;
\*   an st.error inside the call of send_batch_request that follows n - 1
\*     others;
\*   line 119 or a later call of the result section, when calculate("vm")
\*     and calculate("store") have returned and result_breakdown is assigned:
\*     the first m messages of the section are rendered.
calculate_bool(outcomes) ==
    /\ pc = At("line 108", 0)
    /\ pc' = Idle
    /\ IF total_items(session_state).value = 0
       THEN /\ \/ page' = Append(page, "warning: Please add at least one item")
               \/ page' = page
            /\ NoCalculation
       ELSE \E oc \in [1..total_items(session_state).value -> outcomes] :
               \E r \in {calculate_all(session_state, api_key, oc)} :
                  \/ /\ page' = page \o r.errors \o
                                   (IF r.raised # "" THEN <<"exception: " \o r.raised>>
                                    ELSE ResultMessages(r.result_breakdown))
                     /\ sends' = r.sends
                     /\ result_breakdown' = r.result_breakdown
                  \/ \E n \in 0..Len(r.sends) :
                        /\ page' = page \o SentErrors(r.sends, n)
                        /\ sends' = SubSeq(r.sends, 1, n)
                        /\ result_breakdown' = <<>>
                  \/ \E n \in 1..Len(r.sends) :
                        \E stopped \in StoppedSends(r.sends[n]) :
                           /\ page' = page \o SentErrors(r.sends, n - 1) \o stopped.errors
                           /\ sends' = Append(SubSeq(r.sends, 1, n - 1), stopped)
                           /\ result_breakdown' = <<>>
                  \/ /\ r.raised = ""
                     /\ \E m \in 0..(Len(ResultMessages(r.result_breakdown)) - 1) :
                           page' = page \o r.errors
                                        \o SubSeq(ResultMessages(r.result_breakdown), 1, m)
                     /\ sends' = r.sends
                     /\ result_breakdown' = r.result_breakdown
    /\ UNCHANGED <<api_key, file_status, session_state, provider, region, service,
                   widgets>>

Next ==
    \/ \E name \in Range(ProviderNames) : SelectProvider(name)
    \/ \E r \in Range(valid_regions(file_status, convert_provider_name(widgets.Provider))) :
          SelectRegion(r)
    \/ \E s \in Range(ServiceOptions) : SelectService(s)
    \/ \E instance_type \in Range(valid_instances(file_status,
                                                  convert_provider_name(widgets.Provider))),
          duration \in DurationInputs, unit \in UnitInputs, vcpu \in VcpuInputs :
            vm_submitted(instance_type, duration, unit, vcpu)
    \/ \E storage_type \in StorageTypeInputs, duration \in DurationInputs,
          data_stored \in DataInputs, data_unit \in DataUnitInputs, unit \in UnitInputs :
            storage_submitted(storage_type, duration, data_stored, data_unit, unit)
    \/ calculate_clicked
    \/ reset_button
    \/ reset_batches_pass
    \/ reset_batches_return
    \/ script_run
    \/ calculate_bool(SessionOutcomes)

Spec == Init /\ [][Next]_vars

(***************************************************************************)
(* UnitSpec: calculate() called directly on a populated session state.     *)
(* The state holds, for each batch key, requests with durations 1, 2, ...  *)
(* so that the requests of one batch differ; API_KEY is set or not.  One   *)
(* call is made on each such state.                                        *)
(***************************************************************************)
UnitBody(k, i) ==
    LET p == ProviderIds[((k - 1) % 3) + 1]
    IN IF k <= 3
       THEN generate_vm_request_body(first_option(valid_regions("ok", p)),
                                     first_option(valid_instances("ok", p)),
                                     PyInt(i), "h", PyFloat(5)).body
       ELSE generate_storage_request_body(first_option(valid_regions("ok", p)),
                                          "Solid-state Drive", PyInt(i), PyFloat(1),
                                          "GB", "h").body

RECURSIVE SumTo(_, _)
SumTo(lens, k) == IF k = 0 THEN 0 ELSE lens[k] + SumTo(lens, k - 1)

UnitStates ==
    { [key \in BatchKeys |->
          LET k == CHOOSE i \in 1..6 : BatchKeyList[i] = key
          IN [i \in 1..lens[k] |-> UnitBody(k, i)]] :
      lens \in {l \in [1..6 -> 0..MaxUnitItems] : SumTo(l, 6) <= MaxUnitItems} }

UnitInit ==
    /\ api_key \in BOOLEAN
    /\ file_status = "ok"
    /\ session_state \in UnitStates
    /\ provider = convert_provider_name(ProviderNames[1])
    /\ region = first_option(valid_regions(file_status, provider))
    /\ service = ServiceOptions[1]
    /\ widgets = [Provider |-> ProviderNames[1], Region |-> region, Service |-> service,
                  clicked |-> NoButton]
    /\ page = <<>>
    /\ sends = <<>>
    /\ result_breakdown = <<>>
    /\ pc = Idle

\* calculate(calculation_type)
UnitCalculate(calculation_type) ==
    /\ page = <<>> /\ sends = <<>> /\ result_breakdown = <<>>
    /\ \E oc \in [1..SumLen(session_state, {BatchKey(p, calculation_type) :
                                                p \in Range(ProviderIds)}) -> Outcomes] :
          \E r \in {calculate(calculation_type, session_state, api_key,
                              Env(session_state, oc, calculation_type,
                                  KeyIndex("aws", calculation_type)))} :
             /\ page' = r.errors \o (IF r.raised # "" THEN <<"exception: " \o r.raised>>
                                     ELSE <<>>)
             /\ sends' = r.sends
             /\ result_breakdown' = r.result_breakdown
    /\ UNCHANGED <<api_key, file_status, session_state, provider, region, service, widgets,
                   pc>>

\* calculate("vm"), calculate("store") and the merge of dashboard.py lines
\* 113-115, which run with the API_KEY set (line 22) and some item in the
\* batches (line 109).
UnitCalculateAll ==
    /\ page = <<>> /\ sends = <<>> /\ result_breakdown = <<>>
    /\ api_key
    /\ total_items(session_state).value # 0
    /\ \E oc \in [1..total_items(session_state).value -> SessionOutcomes] :
          \E r \in {calculate_all(session_state, api_key, oc)} :
             /\ page' = r.errors \o (IF r.raised # "" THEN <<"exception: " \o r.raised>>
                                     ELSE <<>>)
             /\ sends' = r.sends
             /\ result_breakdown' = r.result_breakdown
    /\ UNCHANGED <<api_key, file_status, session_state, provider, region, service, widgets,
                   pc>>

UnitNext ==
    \/ \E calculation_type \in {"vm", "store"} : UnitCalculate(calculation_type)
    \/ UnitCalculateAll

UnitSpec == UnitInit /\ [][UnitNext]_vars

(***************************************************************************)
(* Vocabulary of the properties, stated apart from the definitions above.  *)
(***************************************************************************)
Providers == {"aws", "azure", "gcp"}
Kinds == {"vm", "store"}
KeyOfBatch(p, kind) == p \o "_" \o kind \o "_batch"
KeyOfBucket(p, kind) == p \o "_" \o kind
SixBatchKeys == {KeyOfBatch(p, kind) : p \in Providers, kind \in Kinds}
Buckets(kinds) == {KeyOfBucket(p, kind) : p \in Providers, kind \in kinds}
EndpointOf(kind) == IF kind = "vm" THEN "instance" ELSE "storage"
Co2eField(kind) == IF kind = "vm" THEN "total_co2e" ELSE "co2e"

\* The HTTP call returned a 2xx/3xx response with a JSON body.
Succeeded(outcome) == outcome.exc = "" /\ outcome.status < 400 /\ outcome.json_ok
\* The HTTP call was answered with an error status.
HttpError(outcome) == outcome.exc = "" /\ outcome.status >= 400
\* A connectivity-level (unreachable, timeout) or unexpected failure.
Aborting(outcome) == ~Succeeded(outcome) /\ ~HttpError(outcome)

\* The responses of the successful posts, in order.
SuccessfulResponses(posts) ==
    LET ok == SelectSeq(posts, LAMBDA x : Succeeded(x.outcome))
    IN [i \in 1..Len(ok) |-> ok[i].outcome.json]

RECURSIVE SumSeq(_)
SumSeq(q) == IF q = <<>> THEN 0 ELSE Head(q) + SumSeq(Tail(q))

\* The CO2e of one response: its field when it is a JSON number, else 0.
NumericCo2e(json, kind) ==
    LET v == json[Co2eField(kind)]
    IN IF v.type \in {"int", "float"} THEN v.n ELSE 0
\* The same with Python's reading of "number", where True is 1 and False is 0.
PythonCo2e(json, kind) ==
    LET v == json[Co2eField(kind)]
    IN IF v.type \in {"int", "float", "bool"} THEN v.n ELSE 0

\* The send_batch_request calls made for provider p with the kind's endpoint.
SendsFor(p, kind) ==
    {n \in DOMAIN sends : sends[n].provider = p /\ sends[n].endpoint = EndpointOf(kind)}
\* The raw results returned for provider p: those of its call, none without one.
ReturnedFor(p, kind) ==
    IF SendsFor(p, kind) = {} THEN <<>>
    ELSE sends[CHOOSE n \in SendsFor(p, kind) : TRUE].results
NoPostFor(p, kind) ==
    \A n \in DOMAIN sends : \A i \in DOMAIN sends[n].posts :
        ~(sends[n].posts[i].provider = p /\ sends[n].posts[i].endpoint = EndpointOf(kind))

ResetShown(pg) == "success: All calculation entries have been reset" \in Range(pg)
AddedShown(pg) ==
    "success: Added VM instance" \in Range(pg) \/ "success: Added storage" \in Range(pg)
CalculationShown(pg) == "Calculation Results" \in Range(pg)
AllBatchesEmpty(ss) == \A k \in DOMAIN ss : ss[k] = <<>>
\* The run or call ended with an exception.
Raised(pg) ==
    \E i \in DOMAIN pg :
        pg[i] \in {"exception: AttributeError", "exception: ValueError", "exception: KeyError"}
\* A calculation of the kind was started.
CalculationRan(kind) ==
    \/ \E n \in DOMAIN sends : sends[n].endpoint = EndpointOf(kind)
    \/ KeyOfBucket("aws", kind) \in DOMAIN result_breakdown

(***************************************************************************)
(* C1.  With a credential and no connectivity-level or unexpected failure  *)
(* in the batch, send_batch_request posts every request body exactly once, *)
(* in batch order, to the provider's endpoint, and returns exactly the     *)
(* responses of the posts that succeeded, in order: an item answered with  *)
(* an HTTP error status is left out and the items after it are still sent. *)
(***************************************************************************)
C1_HttpErrorsAreSkipped ==
    \A n \in DOMAIN sends :
        LET s == sends[n]
        IN (api_key /\ \A i \in DOMAIN s.posts : ~Aborting(s.posts[i].outcome)) =>
              /\ [i \in DOMAIN s.posts |-> s.posts[i].body] = s.body_array
              /\ \A i \in DOMAIN s.posts :
                    s.posts[i].provider = s.provider /\ s.posts[i].endpoint = s.endpoint
              /\ s.results = SuccessfulResponses(s.posts)
              /\ s.raised = ""

\* A batch of three: a success, an HTTP 403, then a success that is returned.
C1_Witness ==
    \E n \in DOMAIN sends :
        /\ api_key
        /\ Len(sends[n].posts) = 3
        /\ Succeeded(sends[n].posts[1].outcome)
        /\ sends[n].posts[2].outcome.status = 403
        /\ Succeeded(sends[n].posts[3].outcome)
        /\ Len(sends[n].results) = 2

(***************************************************************************)
(* C2.  A connectivity-level or unexpected failure of an item aborts the   *)
(* batch at that item: the call returns an empty result sequence, also     *)
(* when earlier items had succeeded, and no later item is posted.          *)
(***************************************************************************)
C2_FailureAbortsBatch ==
    \A n \in DOMAIN sends : \A i \in DOMAIN sends[n].posts :
        Aborting(sends[n].posts[i].outcome) =>
            /\ sends[n].results = <<>>
            /\ i = Len(sends[n].posts)
            /\ sends[n].raised = ""

\* A success, then a connection failure, with a third item never posted.
C2_Witness ==
    \E n \in DOMAIN sends :
        /\ Len(sends[n].body_array) = 3
        /\ Len(sends[n].posts) = 2
        /\ Succeeded(sends[n].posts[1].outcome)
        /\ sends[n].posts[2].outcome.exc = "ConnectionError"
        /\ sends[n].results = <<>>

(***************************************************************************)
(* C3 as claimed.  Without a credential send_batch_request makes no        *)
(* network call and ends in an error (MissingCredentialError), not in a    *)
(* normal result.                                                          *)
(***************************************************************************)
C3_FailsWithMissingCredential ==
    ~api_key =>
        \A n \in DOMAIN sends :
            sends[n].posts = <<>> /\ sends[n].raised = "MissingCredentialError"

(***************************************************************************)
(* C3 amended.  Without a credential send_batch_request reports the        *)
(* missing API_KEY, makes no network call and returns normally, with an    *)
(* empty result sequence.                                                  *)
(***************************************************************************)
C3_ReportsAndReturnsEmpty ==
    ~api_key =>
        /\ \A n \in DOMAIN sends :
              /\ sends[n].posts = <<>>
              /\ sends[n].results = <<>>
              /\ sends[n].raised = ""
        /\ sends # <<>> => page = [n \in DOMAIN sends |->
                                     "error: API_KEY environment variable not set"]

\* No credential, and a call made for a batch of two requests.
C3_Witness ==
    /\ ~api_key
    /\ \E n \in DOMAIN sends : Len(sends[n].body_array) = 2

(***************************************************************************)
(* C4 as claimed.  calculate for a kind always returns a mapping with an   *)
(* entry for each of the three providers; a provider whose batch is empty  *)
(* has the value 0 and no network call is issued for it; with all six      *)
(* batches empty every value is 0 and no network call is made.             *)
(***************************************************************************)
\* A call of calculate was made and has ended.
CallEnded == page # <<>> \/ sends # <<>> \/ result_breakdown # <<>>

C4_AlwaysReturnsMapping ==
    /\ \A p \in Providers, kind \in Kinds :
          session_state[KeyOfBatch(p, kind)] = <<>> => NoPostFor(p, kind)
    /\ CallEnded =>
          /\ DOMAIN result_breakdown \in
                {Buckets({"vm"}), Buckets({"store"}), Buckets({"vm", "store"})}
          /\ \A p \in Providers, kind \in Kinds :
                (/\ KeyOfBucket(p, kind) \in DOMAIN result_breakdown
                 /\ session_state[KeyOfBatch(p, kind)] = <<>>) =>
                      result_breakdown[KeyOfBucket(p, kind)] = 0
          /\ AllBatchesEmpty(session_state) =>
                /\ \A b \in DOMAIN result_breakdown : result_breakdown[b] = 0
                /\ sends = <<>>

\* calculate("vm") with an empty aws batch, for which nothing was posted, and
\* an azure batch answered 200 with a body that is not an object: the call
\* ended with an exception and returned no mapping.
C4_Witness ==
    /\ api_key
    /\ session_state[KeyOfBatch("aws", "vm")] = <<>>
    /\ NoPostFor("aws", "vm")
    /\ Len(sends) = 1
    /\ sends[1].provider = "azure" /\ sends[1].endpoint = EndpointOf("vm")
    /\ \E i \in DOMAIN sends[1].results : sends[1].results[i].type # "object"
    /\ "exception: AttributeError" \in Range(page)
    /\ DOMAIN result_breakdown = {}

\* In a calculation, provider q's non-empty batch was sent once, as it is held.
SentOnce(q, kind) ==
    /\ Cardinality(SendsFor(q, kind)) = 1
    /\ \A n \in SendsFor(q, kind) : sends[n].body_array = session_state[KeyOfBatch(q, kind)]
PostsFor(q, kind) == sends[CHOOSE n \in SendsFor(q, kind) : TRUE].posts
SumOfSuccessful(q, kind) ==
    LET ok == SuccessfulResponses(PostsFor(q, kind))
    IN SumSeq([i \in DOMAIN ok |-> PythonCo2e(ok[i], kind)])
AllFailed(q, kind) ==
    \A i \in DOMAIN PostsFor(q, kind) : ~Succeeded(PostsFor(q, kind)[i].outcome)

(***************************************************************************)
(* C5 as claimed.  Whatever happens to the other providers' batches, in a  *)
(* calculation of a kind every provider with a non-empty batch is sent and *)
(* its bucket is the sum of its own successful responses; a provider whose *)
(* items all failed has bucket 0.                                          *)
(***************************************************************************)
C5_BucketIsSumOfSuccessful ==
    \A kind \in Kinds :
        CalculationRan(kind) =>
            \A q \in Providers :
                session_state[KeyOfBatch(q, kind)] # <<>> =>
                    /\ SentOnce(q, kind)
                    /\ KeyOfBucket(q, kind) \in DOMAIN result_breakdown
                    /\ result_breakdown[KeyOfBucket(q, kind)] = SumOfSuccessful(q, kind)
                    /\ AllFailed(q, kind) => result_breakdown[KeyOfBucket(q, kind)] = 0

\* aws was answered 200 with a body that is not an object: the calculation
\* ended with an exception and azure, whose batch is not empty, was not sent.
C5_Witness ==
    \E kind \in Kinds :
        /\ api_key
        /\ SendsFor("aws", kind) # {}
        /\ \E i \in DOMAIN ReturnedFor("aws", kind) :
              ReturnedFor("aws", kind)[i].type # "object"
        /\ Raised(page)
        /\ session_state[KeyOfBatch("azure", kind)] # <<>>
        /\ SendsFor("azure", kind) = {}
        /\ result_breakdown = <<>>

(***************************************************************************)
(* C9 as claimed.  A provider's bucket is the sum, over the raw results    *)
(* returned by send_batch_request for it, of the kind's CO2e field, where  *)
(* a missing or non-numeric field counts as 0 and no result causes a       *)
(* failure.                                                                *)
(***************************************************************************)
C9_BucketIsSumOfNumericField ==
    /\ ~Raised(page)
    /\ \A p \in Providers, kind \in Kinds :
          KeyOfBucket(p, kind) \in DOMAIN result_breakdown =>
              result_breakdown[KeyOfBucket(p, kind)] =
                  SumSeq([i \in DOMAIN ReturnedFor(p, kind) |->
                              NumericCo2e(ReturnedFor(p, kind)[i], kind)])

SelectedKind == IF service = "Virtual Machine" THEN "vm" ELSE "store"
\* The name shown in the "Provider" widget for each provider.
NameOf == [aws |-> "Amazon Web Services", azure |-> "Microsoft Azure",
           gcp |-> "Google Cloud Platform"]
GrewByOne(old, new) == Len(new) = Len(old) + 1 /\ SubSeq(new, 1, Len(old)) = old
\* The step is part of a run started by a click on Calculate.
CalculationStep == pc.at = "line 108" \/ pc'.at = "line 108"

C7_Step ==
    /\ DOMAIN session_state' = DOMAIN session_state
    /\ \A k \in DOMAIN session_state :
          \/ session_state'[k] = session_state[k]
          \/ /\ GrewByOne(session_state[k], session_state'[k])
             /\ k = KeyOfBatch(provider', SelectedKind')
             /\ NameOf[provider'] = widgets.Provider /\ service' = widgets.Service
             /\ \A other \in DOMAIN session_state \ {k} :
                   session_state'[other] = session_state[other]
          \/ pc.at = "reset_batches" /\ session_state'[k] = <<>>
    /\ (CalculationStep \/ CalculationShown(page') \/ sends' # <<>>) =>
          session_state' = session_state
    /\ AddedShown(page') =>
          GrewByOne(session_state[KeyOfBatch(provider', SelectedKind')],
                    session_state'[KeyOfBatch(provider', SelectedKind')])
    /\ (\E k \in DOMAIN session_state :
           session_state[k] # <<>> /\ session_state'[k] = <<>>) =>
          pc.at = "reset_batches"

FormEnabled ==
    \/ ENABLED (\E instance_type \in Range(valid_instances(file_status,
                                                  convert_provider_name(widgets.Provider))),
                   duration \in DurationInputs, unit \in UnitInputs, vcpu \in VcpuInputs :
                     vm_submitted(instance_type, duration, unit, vcpu))
    \/ ENABLED (\E storage_type \in StorageTypeInputs, duration \in DurationInputs,
                   data_stored \in DataInputs, data_unit \in DataUnitInputs,
                   unit \in UnitInputs :
                     storage_submitted(storage_type, duration, data_stored, data_unit, unit))

\* Every step of the handler of the Calculate button (with results, with an
\* exception, stopped, or with the warning of line 110) ends the run, and a
\* session whose run has ended has a form that accepts a request, below the
\* bound on the requests.
C7_BatchesGrowAtTail ==
    /\ [][C7_Step /\ (pc.at = "line 108" => pc' = Idle)]_vars
    /\ []((api_key /\ pc = Idle /\ Held(session_state) < MaxItems) => FormEnabled)

\* Two different requests in one batch, the second just added.
C7_Witness ==
    \E k \in DOMAIN session_state :
        /\ Len(session_state[k]) = 2
        /\ session_state[k][1] # session_state[k][2]
        /\ AddedShown(page)

(***************************************************************************)
(* C8.  Once the session is initialised the keys of the store are exactly  *)
(* the six of {aws, azure, gcp} x {vm, store}.                             *)
(***************************************************************************)
C8_ExactlySixKeys ==
    api_key =>
        /\ DOMAIN session_state = SixBatchKeys
        /\ Cardinality(DOMAIN session_state) = 6

\* A calculation made after a provider selection and an append.
C8_Witness ==
    /\ api_key
    /\ provider = "gcp"
    /\ session_state[KeyOfBatch("gcp", "store")] # <<>>
    /\ CalculationShown(page)

(***************************************************************************)
(* C10.  Every request of provider p's batches has a region of p's catalog *)
(* regions; every request of p's vm batch is a VM request body with an     *)
(* instance of p's catalog instances; every request of p's storage batch   *)
(* is a storage request body.                                              *)
(***************************************************************************)
VmFields == {"region", "instance", "duration", "duration_unit", "average_vcpu_utilization"}
StorageFields == {"region", "storage_type", "data", "data_unit", "duration", "duration_unit"}
Catalog == IF file_status = "ok" THEN FileCatalog ELSE FallbackCatalog

C10_RequestsMatchTheirBatch ==
    api_key =>
        \A p \in Providers :
            /\ \A i \in DOMAIN session_state[KeyOfBatch(p, "vm")] :
                  LET body == session_state[KeyOfBatch(p, "vm")][i]
                  IN /\ DOMAIN body = VmFields
                     /\ body.region \in Range(Catalog[p].regions)
                     /\ body.instance \in Range(Catalog[p].virtual_machine_instances)
            /\ \A i \in DOMAIN session_state[KeyOfBatch(p, "store")] :
                  LET body == session_state[KeyOfBatch(p, "store")][i]
                  IN /\ DOMAIN body = StorageFields
                     /\ body.region \in Range(Catalog[p].regions)

\* Requests filed for two providers, one of each kind, after a provider change.
C10_Witness ==
    /\ api_key
    /\ session_state[KeyOfBatch("aws", "store")] # <<>>
    /\ session_state[KeyOfBatch("azure", "vm")] # <<>>

====
